---------------------------- MODULE Spec2Model ----------------------------
(***************************************************************************)
(* A model of slack-multi-channel-invite (src/main.go): the three-stage    *)
(* pipeline of main():                                                     *)
(*   1. look up one user ID per email            (getUserID)               *)
(*   2. page through the channel list            (getChannels)             *)
(*   3. invite / remove the users per channel    (inviteUsersToChannel,    *)
(*                                                removeUsersFromChannel)  *)
(*                                                                         *)
(* A Go string is a sequence of symbols.  A symbol is either the comma or  *)
(* an opaque, URL-safe piece of text (an email, a channel name, an ID, a   *)
(* cursor); the empty string is the empty sequence <<>>.  strings.Split    *)
(* and strings.Join work on these sequences as they do on Go strings.      *)
(*                                                                         *)
(* The Slack server is the environment: each remote call receives one      *)
(* response chosen nondeterministically from the shapes the code tells     *)
(* apart (transport error, non-200 status, undecodable body, ok=false,     *)
(* ok=true with a payload).                                                *)
(*                                                                         *)
(* Not modelled: the -private flag (it only selects the "types" parameter  *)
(* of the list request); http.NewRequest failing (it cannot for URL-safe   *)
(* emails and cursors); a remote call that never returns.                  *)
(***************************************************************************)
EXTENDS Naturals, Sequences, FiniteSets

\* ----------------------------------------------------------------- bounds
\* the largest number of comma-separated fields of the -emails flag
MaxEmails == 2
\* the largest number of comma-separated fields of the -channels flag
MaxChannels == 2
\* the largest number of conversations.list pages the server is asked for
MaxPages == 2
\* the largest number of channels on one page (limit=200 in the request,
\* main.go:223; the code never looks at the size of a page)
PageLimit == 1

\* ------------------------------------------------------ program constants
actionAdd == "add"
actionRemove == "remove"
StatusOK == 200
Comma == ","
EmptyString == <<>>

\* ------------------------------------------------------ the input domains
EmailTokens == {<<"a@x">>, <<"b@x">>}
ChannelTokens == {<<"general">>, <<"random">>}
UserIDSet == {<<>>, <<"U1">>, <<"U2">>}
ChannelIDSet == {<<>>, <<"C1">>, <<"C2">>}
CursorSet == {<<>>, <<"c1">>, <<"c2">>}
ActionSet == {actionAdd, actionRemove, "bogus"}
TokenSet == {<<>>, <<"xoxb">>}

\* sequences of 1..n fields drawn from T
FieldSeqs(T, n) == UNION {[1..k -> T] : k \in 1..n}

\* ------------------------------------------------------- string functions
\* strings.Join(elems, sep)
RECURSIVE Join(_, _)
Join(elems, sep) ==
    IF Len(elems) = 0 THEN <<>>
    ELSE IF Len(elems) = 1 THEN elems[1]
    ELSE elems[1] \o <<sep>> \o Join(Tail(elems), sep)

\* strings.Split(s, sep): the fields of s between the occurrences of sep;
\* a string without sep, the empty string included, is one field
RECURSIVE Split(_, _)
Split(s, sep) ==
    IF \E i \in 1..Len(s) : s[i] = sep
    THEN LET i == CHOOSE k \in 1..Len(s) :
                    /\ s[k] = sep
                    /\ \A j \in 1..(k - 1) : s[j] # sep
         IN  <<SubSeq(s, 1, i - 1)>> \o Split(SubSeq(s, i + 1, Len(s)), sep)
    ELSE <<s>>

\* v, ok := m[k] of a Go map[string]string: the zero value "" for a missing key
MapGet(m, k) == IF k \in DOMAIN m THEN m[k] ELSE EmptyString

\* (mutant: an existing key keeps its value)
MapPut_KeepFirst(m, k, v) ==
    [x \in (DOMAIN m) \cup {k} |-> IF x \in DOMAIN m THEN m[x] ELSE v]

\* m[k] = v
MapPut(m, k, v) == [x \in (DOMAIN m) \cup {k} |-> IF x = k THEN v ELSE m[x]]

\* make(map[string]string), and the nil map
EmptyMap == [x \in {} |-> EmptyString]

\* ------------------------------------------------------------- responses
\* What one remote call gets back.  err: httpClient.Do failed (no response).
\* status, decodes, ok: the HTTP status, whether the body is valid JSON of the
\* expected shape, and its "ok" field.  id / channels / cursor: the payload.
Response(err, status, decodes, ok, id, channels, cursor) ==
    [err |-> err, status |-> status, decodes |-> decodes, ok |-> ok,
     id |-> id, channels |-> channels, cursor |-> cursor]

NoResponse == Response(FALSE, 0, FALSE, FALSE, <<>>, <<>>, <<>>)

\* the failing shapes: transport error, non-200 (even with a body that says
\* ok=true), 200 with an undecodable body, 200 with ok=false
FailureResponses ==
    {Response(TRUE, 0, FALSE, FALSE, <<>>, <<>>, <<>>)}
    \cup {Response(FALSE, 500, TRUE, TRUE, <<>>, <<>>, <<>>)}
    \cup {Response(FALSE, StatusOK, FALSE, FALSE, <<>>, <<>>, <<>>)}
    \cup {Response(FALSE, StatusOK, TRUE, FALSE, <<>>, <<>>, <<>>)}

LookupResponses ==
    FailureResponses
    \cup {Response(FALSE, StatusOK, TRUE, TRUE, u, <<>>, <<>>) : u \in UserIDSet}

ChannelEntries == [name : ChannelTokens, id : ChannelIDSet]

Pages == UNION {[1..k -> ChannelEntries] : k \in 0..PageLimit}

ListResponses ==
    FailureResponses
    \cup {Response(FALSE, StatusOK, TRUE, TRUE, <<>>, p, c) :
            p \in Pages, c \in CursorSet}

MutationResponses ==
    FailureResponses
    \cup {Response(FALSE, StatusOK, TRUE, TRUE, <<>>, <<>>, <<>>)}

\* ------------------------------------------------------------------ state
VARIABLES
    apiToken,           \* -api_token
    action,             \* -action
    emails,             \* -emails
    channelsArg,        \* -channels
    debug,              \* -debug
    pc,                 \* where main() is
    emailIdx,           \* position of the lookup loop in Split(emails, ",")
    userIDs,            \* the resolved user IDs
    nameToID,           \* getChannels' accumulator
    nextCursor,         \* getChannels' cursor
    channelNameToIDMap, \* what getChannels returned to main()
    chanIdx,            \* position of the mutation loop in Split(channelsArg, ",")
    userIdx,            \* position of removeUsersFromChannel's loop in userIDs
    calls,              \* every remote call issued so far, in order
    lastResp,           \* the response to the latest remote call
    out                 \* the lines printed so far

vars == <<apiToken, action, emails, channelsArg, debug, pc, emailIdx, userIDs,
          nameToID, nextCursor, channelNameToIDMap, chanIdx, userIdx,
          calls, lastResp, out>>

flags == <<apiToken, action, emails, channelsArg, debug>>

\* whether the server answered a call with a success
Successful(resp) ==
    /\ ~resp.err
    /\ resp.status = StatusOK
    /\ resp.decodes
    /\ resp.ok

\* One remote call as the transport sees it.  The request: op, and channel /
\* arg (the email of a lookup, the cursor of a list, the users of an invite,
\* the user of a kick).  The response: ok (Successful), and for a success the
\* user ID of a lookup or the next cursor of a list (ret) and the channels of
\* a list page (page).
Call(op, channel, arg, resp) ==
    [op |-> op, channel |-> channel, arg |-> arg, ok |-> Successful(resp),
     ret |-> IF ~Successful(resp) THEN EmptyString
             ELSE IF op = "lookup" THEN resp.id
             ELSE IF op = "list" THEN resp.cursor
             ELSE EmptyString,
     page |-> IF Successful(resp) /\ op = "list" THEN resp.channels ELSE <<>>]

\* one printed line: its kind and the item it names (an error line also
\* carries the text of the error it reports, whatever the error is)
Line(kind, item) == [kind |-> kind, item |-> item]

\* if debug { fmt.Printf("DEBUG: ...") }
debugLines(lines) == IF debug THEN lines ELSE <<>>

EmailArgs == {EmptyString} \cup {Join(f, Comma) : f \in FieldSeqs(EmailTokens, MaxEmails)}
ChannelArgs == {EmptyString} \cup {Join(f, Comma) : f \in FieldSeqs(ChannelTokens, MaxChannels)}

emailList == Split(emails, Comma)

\* the fields of s without the repetitions of an earlier field
RECURSIVE Distinct(_)
Distinct(s) ==
    IF s = <<>> THEN <<>>
    ELSE LET front == SubSeq(s, 1, Len(s) - 1)
         IN  IF \E i \in 1..Len(front) : front[i] = s[Len(s)]
             THEN Distinct(front)
             ELSE Append(Distinct(front), s[Len(s)])

\* (mutant: a channel requested twice is processed once)
channels_Distinct == Distinct(Split(channelsArg, Comma))

channels == Split(channelsArg, Comma)

Init ==
    /\ apiToken \in TokenSet
    /\ action \in ActionSet
    /\ emails \in EmailArgs
    /\ channelsArg \in ChannelArgs
    /\ debug \in BOOLEAN
    /\ pc = "start"
    /\ emailIdx = 1
    /\ userIDs = <<>>
    /\ nameToID = EmptyMap
    /\ nextCursor = EmptyString
    /\ channelNameToIDMap = EmptyMap
    /\ chanIdx = 1
    /\ userIdx = 1
    /\ calls = <<>>
    /\ lastResp = NoResponse
    /\ out = <<>>

\* --------------------------------------------------- the remote functions
\* the checks every remote function makes on its response, in the code's
\* order: transport error, status, decoding, the ok field
getUserIDFails(resp) ==
    \/ resp.err
    \/ resp.status # StatusOK
    \/ ~resp.decodes
    \/ ~resp.ok

\* (mutant: a response without a user ID is an error)
getUserID_RejectEmpty(resp) ==
    IF getUserIDFails(resp) \/ resp.id = EmptyString
    THEN [id |-> EmptyString, failed |-> TRUE]
    ELSE [id |-> resp.id, failed |-> FALSE]

\* getUserID's result: [id, failed]
getUserID(resp) ==
    IF getUserIDFails(resp)
    THEN [id |-> EmptyString, failed |-> TRUE]
    ELSE [id |-> resp.id, failed |-> FALSE]

\* (mutant: the ok field of the page is not checked)
getChannelsPageFails_NoOkCheck(resp) ==
    \/ resp.err
    \/ resp.status # StatusOK
    \/ ~resp.decodes

getChannelsPageFails(resp) ==
    \/ resp.err
    \/ resp.status # StatusOK
    \/ ~resp.decodes
    \/ ~resp.ok

\* for _, channel := range data.Channels { nameToID[channel.Name] = channel.ID }
RECURSIVE MergePage(_, _)
MergePage(m, page) ==
    IF page = <<>> THEN m
    ELSE MergePage(MapPut(m, page[1].name, page[1].id), Tail(page))

\* (mutant: only the status is checked)
inviteUsersToChannelFails_StatusOnly(resp) ==
    \/ resp.err
    \/ resp.status # StatusOK

inviteUsersToChannelFails(resp) ==
    \/ resp.err
    \/ resp.status # StatusOK
    \/ ~resp.decodes
    \/ ~resp.ok

\* (mutant: only the first user is sent)
inviteUsers_First(ids) == ids[1]

\* the "users" field of the invite request
inviteUsers(ids) == Join(ids, Comma)

removeUserFromChannelFails(resp) ==
    \/ resp.err
    \/ resp.status # StatusOK
    \/ ~resp.decodes
    \/ ~resp.ok

\* ---------------------------------------------------------------- actions
\* (mutant: the action is not validated)
flagsInvalid_NoActionCheck ==
    \/ apiToken = EmptyString
    \/ emails = EmptyString
    \/ channelsArg = EmptyString

\* flag validation
flagsInvalid ==
    \/ apiToken = EmptyString
    \/ emails = EmptyString
    \/ channelsArg = EmptyString
    \/ (action # actionAdd /\ action # actionRemove)

ParseFlags ==
    /\ pc = "start"
    /\ IF flagsInvalid
       THEN /\ pc' = "exit1"
            /\ out' = Append(out, Line("usage", EmptyString))
       ELSE /\ pc' = "lookup"
            /\ out' = Append(out, Line("looking_up", EmptyString))
    /\ UNCHANGED <<flags, emailIdx, userIDs, nameToID, nextCursor,
                   channelNameToIDMap, chanIdx, userIdx, calls, lastResp>>

\* (mutant: the new identifier is put at the front)
appendUserID_Front(ids, id) == <<id>> \o ids

\* userIDs = append(userIDs, userID)
appendUserID(ids, id) == Append(ids, id)

\* (mutant: a failed lookup ends the loop, break for continue)
lookupLoopNext_Break(i, failed) == IF failed THEN Len(emailList) + 1 ELSE i + 1

\* the lookup loop goes on to the next email, after an error too (continue)
lookupLoopNext(i, failed) == i + 1

\* one iteration of the lookup loop
LookupUser ==
    /\ pc = "lookup"
    /\ emailIdx <= Len(emailList)
    /\ \E resp \in LookupResponses :
         LET email == emailList[emailIdx]
             r == getUserID(resp)
         IN  /\ lastResp' = resp
             /\ calls' = Append(calls, Call("lookup", EmptyString, email, resp))
             /\ IF r.failed
                THEN /\ out' = Append(out, Line("lookup_error", email))
                     /\ userIDs' = userIDs
                ELSE /\ out' = Append(out, Line("valid_user", email))
                     /\ userIDs' = appendUserID(userIDs, r.id)
             /\ emailIdx' = lookupLoopNext(emailIdx, r.failed)
    /\ UNCHANGED <<flags, pc, nameToID, nextCursor, channelNameToIDMap,
                   chanIdx, userIdx>>

\* (mutant: the check for an empty list is missing)
noUsers_Never == FALSE

\* after the lookup loop: abort without users, else enter getChannels
noUsers == Len(userIDs) = 0

CheckUsers ==
    /\ pc = "lookup"
    /\ emailIdx > Len(emailList)
    /\ IF noUsers
       THEN /\ pc' = "aborted"
            /\ out' = Append(out, Line("no_users", EmptyString))
            /\ UNCHANGED <<nameToID, nextCursor>>
       ELSE /\ pc' = "list"
            /\ nameToID' = EmptyMap
            /\ nextCursor' = EmptyString
            /\ out' = out
    /\ UNCHANGED <<flags, emailIdx, userIDs, channelNameToIDMap, chanIdx,
                   userIdx, calls, lastResp>>

listCalls == SelectSeq(calls, LAMBDA c : c.op = "list")

\* (mutant: every request carries the empty cursor)
listRequestCursor_Empty == EmptyString

\* the cursor getChannels puts into the request
listRequestCursor == nextCursor

\* (mutant: the loop ends after any page)
lastPage_Always(c) == TRUE

\* (mutant: the loop never ends)
lastPage_Never(c) == FALSE

\* whether the pagination loop ends after a page that returned cursor c
lastPage(c) == c = EmptyString

\* (mutant: each page replaces the accumulator)
mergeChannels_Replace(m, page) == MergePage(EmptyMap, page)

\* the page's channels merged into the accumulator
mergeChannels(m, page) == MergePage(m, page)

\* One iteration of getChannels' loop; its return to main() when it ends.
\* record: whether the iteration is written into the history (the call, and
\* under -debug the DEBUG line of the page); responses: what the server may
\* answer.
getChannelsIteration(record, responses) ==
    /\ pc = "list"
    /\ \E resp \in responses :
         LET call == Call("list", EmptyString, listRequestCursor, resp)
             pageLine == debugLines(<<Line("debug_page", Len(resp.channels))>>)
         IN  /\ lastResp' = resp
             /\ calls' = IF record THEN Append(calls, call) ELSE calls
             /\ IF getChannelsPageFails(resp)
                THEN /\ channelNameToIDMap' = EmptyMap
                     /\ pc' = "panic"
                     /\ out' = Append(out, Line("panic", EmptyString))
                     /\ UNCHANGED <<nameToID, nextCursor>>
                ELSE /\ nameToID' = mergeChannels(nameToID, resp.channels)
                     /\ nextCursor' = resp.cursor
                     /\ IF lastPage(resp.cursor)
                        THEN /\ channelNameToIDMap' = nameToID'
                             /\ pc' = "mutate"
                             /\ out' = (IF record THEN out \o pageLine ELSE out)
                                       \o debugLines(<<Line("debug_total",
                                                Cardinality(DOMAIN nameToID'))>>)
                                       \o <<Line(IF action = actionAdd THEN "inviting"
                                                 ELSE "removing", EmptyString)>>
                        ELSE /\ out' = IF record THEN out \o pageLine ELSE out
                             /\ UNCHANGED <<channelNameToIDMap, pc>>
    /\ UNCHANGED <<flags, emailIdx, userIDs, chanIdx, userIdx>>

\* the iterations the history records: the first MaxPages pages
FetchPage ==
    /\ Len(listCalls) < MaxPages
    /\ getChannelsIteration(TRUE, ListResponses)

\* the mutation loop
channel == channels[chanIdx]
channelID == MapGet(channelNameToIDMap, channel)

\* (mutant: the check for an unknown channel is missing)
channelMissing_Never(id) == FALSE

\* if channelID == ""
channelMissing(id) == id = EmptyString

\* (mutant: a failed mutation ends the loop, break for continue)
mutationLoopNext_Break(i, failed) == IF failed THEN Len(channels) + 1 ELSE i + 1

\* (mutant: a failed mutation is tried again)
mutationLoopNext_Retry(i, failed) == IF failed THEN i ELSE i + 1

\* the mutation loop goes on to the next channel, after an error too (continue)
mutationLoopNext(i, failed) == i + 1

\* (mutant: reading a missing key inserts it with the zero value)
SkipChannel_Inserts ==
    /\ pc = "mutate"
    /\ chanIdx <= Len(channels)
    /\ channelMissing(channelID)
    /\ out' = Append(out, Line("not_found", channel))
    /\ chanIdx' = chanIdx + 1
    /\ channelNameToIDMap' = MapPut(channelNameToIDMap, channel, EmptyString)
    /\ UNCHANGED <<flags, pc, emailIdx, userIDs, nameToID, nextCursor,
                   userIdx, calls, lastResp>>

SkipChannel ==
    /\ pc = "mutate"
    /\ chanIdx <= Len(channels)
    /\ channelMissing(channelID)
    /\ out' = Append(out, Line("not_found", channel))
    /\ chanIdx' = chanIdx + 1
    /\ UNCHANGED <<flags, pc, emailIdx, userIDs, nameToID, nextCursor,
                   channelNameToIDMap, userIdx, calls, lastResp>>

InviteChannel ==
    /\ pc = "mutate"
    /\ chanIdx <= Len(channels)
    /\ ~channelMissing(channelID)
    /\ action = actionAdd
    /\ \E resp \in MutationResponses :
         LET failed == inviteUsersToChannelFails(resp)
         IN  /\ lastResp' = resp
             /\ calls' = Append(calls, Call("invite", channelID, inviteUsers(userIDs), resp))
             /\ out' = Append(out, Line(IF failed THEN "invite_error" ELSE "invited", channel))
             /\ chanIdx' = mutationLoopNext(chanIdx, failed)
    /\ UNCHANGED <<flags, pc, emailIdx, userIDs, nameToID, nextCursor,
                   channelNameToIDMap, userIdx>>

\* (mutant: the loop goes on after an error)
abortRemoval_Never(failed) == FALSE

\* removeUsersFromChannel returns at the first error
abortRemoval(failed) == failed

\* one iteration of removeUsersFromChannel's loop; its return to main()
\* when it ends
RemoveUser ==
    /\ pc = "mutate"
    /\ chanIdx <= Len(channels)
    /\ ~channelMissing(channelID)
    /\ action # actionAdd
    /\ userIdx <= Len(userIDs)
    /\ \E resp \in MutationResponses :
         LET failed == removeUserFromChannelFails(resp)
         IN  /\ lastResp' = resp
             /\ calls' = Append(calls, Call("kick", channelID, userIDs[userIdx], resp))
             /\ IF abortRemoval(failed)
                THEN /\ out' = out \o debugLines(<<Line("debug_remove_error",
                                                          userIDs[userIdx])>>)
                                    \o <<Line("remove_error", channel)>>
                     /\ chanIdx' = mutationLoopNext(chanIdx, TRUE)
                     /\ userIdx' = 1
                ELSE IF userIdx = Len(userIDs)
                THEN /\ out' = Append(out, Line("removed", channel))
                     /\ chanIdx' = mutationLoopNext(chanIdx, FALSE)
                     /\ userIdx' = 1
                ELSE /\ out' = out
                     /\ chanIdx' = chanIdx
                     /\ userIdx' = userIdx + 1
    /\ UNCHANGED <<flags, pc, emailIdx, userIDs, nameToID, nextCursor,
                   channelNameToIDMap>>

Finish ==
    /\ pc = "mutate"
    /\ chanIdx > Len(channels)
    /\ pc' = "done"
    /\ out' = Append(out, Line("all_done", EmptyString))
    /\ UNCHANGED <<flags, emailIdx, userIDs, nameToID, nextCursor,
                   channelNameToIDMap, chanIdx, userIdx, calls, lastResp>>

\* the exit status of the process: os.Exit(1) after the usage text, 2 after
\* a panic, 0 after a return from main()
exitStatus == IF pc = "exit1" THEN 1 ELSE IF pc = "panic" THEN 2 ELSE 0

\* (mutant: the channel list is fetched while the lookups are still running)
FetchPageDuringLookups ==
    /\ pc = "lookup"
    /\ Len(listCalls) < MaxPages
    /\ \E resp \in ListResponses :
         /\ lastResp' = resp
         /\ calls' = Append(calls, Call("list", EmptyString, listRequestCursor, resp))
         /\ IF getChannelsPageFails(resp)
            THEN UNCHANGED <<nameToID, nextCursor>>
            ELSE /\ nameToID' = mergeChannels(nameToID, resp.channels)
                 /\ nextCursor' = resp.cursor
    /\ UNCHANGED <<flags, pc, emailIdx, userIDs, channelNameToIDMap, chanIdx,
                   userIdx, out>>

Next_Concurrent ==
    \/ ParseFlags
    \/ LookupUser
    \/ CheckUsers
    \/ FetchPage
    \/ SkipChannel
    \/ InviteChannel
    \/ RemoveUser
    \/ Finish
    \/ FetchPageDuringLookups

Next ==
    \/ ParseFlags
    \/ LookupUser
    \/ CheckUsers
    \/ FetchPage
    \/ SkipChannel
    \/ InviteChannel
    \/ RemoveUser
    \/ Finish

Spec == Init /\ [][Next]_vars

\* ------------------------------------- the same program, other environments
\* one email and one channel on the command line
InitSmall ==
    /\ Init
    /\ Len(emailList) = 1
    /\ Len(channels) = 1

\* a server whose pages hold one channel more
WidePages == UNION {[1..k -> ChannelEntries] : k \in 0..(PageLimit + 1)}

WideListResponses ==
    FailureResponses
    \cup {Response(FALSE, StatusOK, TRUE, TRUE, <<>>, p, c) :
            p \in WidePages, c \in CursorSet}

FetchWidePage ==
    /\ Len(listCalls) < MaxPages
    /\ getChannelsIteration(TRUE, WideListResponses)

NextWide ==
    \/ ParseFlags
    \/ LookupUser
    \/ CheckUsers
    \/ FetchWidePage
    \/ SkipChannel
    \/ InviteChannel
    \/ RemoveUser
    \/ Finish

SpecWide == InitSmall /\ [][NextWide]_vars

\* A server that may go on returning cursors for ever.  getChannels' loop has
\* no bound of its own (for { ... }, main.go:221): it takes as many pages as
\* the server gives, and the history does not record its iterations.
FetchPageUnrecorded == getChannelsIteration(FALSE, ListResponses)

NextLive ==
    \/ ParseFlags
    \/ LookupUser
    \/ CheckUsers
    \/ FetchPageUnrecorded
    \/ SkipChannel
    \/ InviteChannel
    \/ RemoveUser
    \/ Finish

\* every remote call returns and main() runs on: a step that can be taken
\* is taken
SpecLive == InitSmall /\ [][NextLive]_vars /\ WF_vars(NextLive)

\* ------------------------------------------------------- the call history
lookupCalls == SelectSeq(calls, LAMBDA c : c.op = "lookup")
inviteCalls == SelectSeq(calls, LAMBDA c : c.op = "invite")
kickCalls == SelectSeq(calls, LAMBDA c : c.op = "kick")

\* the lookup stage is over
LookupsDone == pc \in {"aborted", "list", "panic", "mutate", "done"}

\* the mutation stage has been entered
Mutating == pc \in {"mutate", "done"}

RECURSIVE IsPrefix(_, _)
IsPrefix(s, t) ==
    \/ s = <<>>
    \/ /\ t # <<>>
       /\ Head(s) = Head(t)
       /\ IsPrefix(Tail(s), Tail(t))

\* ------------------------------------------------------------------- C1
\* C1: in a run where no lookup is answered with a success, every remote call
\* ever issued is a lookup (no channel-list, invite or removal call), and the
\* run never gets past the lookup stage: it ends aborted.
C1_NoUsersNoCalls ==
    (\A i \in 1..Len(calls) : calls[i].op = "lookup" => ~calls[i].ok)
        => /\ \A i \in 1..Len(calls) : calls[i].op = "lookup"
           /\ pc \in {"start", "exit1", "lookup", "aborted"}
           /\ (emailIdx > Len(emailList) => userIDs = <<>>)

\* two emails, both lookups failed, the run aborted
C1_Witness ==
    /\ pc = "aborted"
    /\ Len(calls) = 2
    /\ ~calls[1].ok /\ ~calls[2].ok
    /\ out[Len(out)].kind = "no_users"

\* ------------------------------------------------------------------- C2
\* C2: the lookup calls issued so far are, in order, the first fields of the
\* -emails argument, one call per field whatever the earlier outcomes; when
\* the lookup stage is over there is exactly one call per field, so that the
\* emails looked up, comma-joined, are the -emails argument again.
C2_OneLookupPerEmail ==
    /\ IsPrefix(Join([i \in 1..Len(lookupCalls) |-> lookupCalls[i].arg], Comma), emails)
    /\ \A i \in 1..Len(lookupCalls) : \A j \in 1..Len(lookupCalls[i].arg) :
          lookupCalls[i].arg[j] # Comma
    /\ LookupsDone =>
          Join([i \in 1..Len(lookupCalls) |-> lookupCalls[i].arg], Comma) = emails

\* the first lookup fails, the second, of another email, is still made
C2_Witness ==
    /\ LookupsDone
    /\ Len(lookupCalls) = 2
    /\ ~lookupCalls[1].ok
    /\ lookupCalls[2].ok
    /\ lookupCalls[1].arg # lookupCalls[2].arg

\* ------------------------------------------------------------------- C3
\* C3: at every moment the resolved list is exactly the identifiers the
\* server returned in its successful lookup responses, in call order.
SuccessfulLookups == SelectSeq(lookupCalls, LAMBDA c : c.ok)

C3_ResolvedList ==
    userIDs = [i \in 1..Len(SuccessfulLookups) |-> SuccessfulLookups[i].ret]

\* two successful lookups with different identifiers
C3_Witness ==
    /\ pc = "list"
    /\ Len(userIDs) = 2
    /\ userIDs[1] # userIDs[2]

\* a failed lookup between nothing and a successful one: the list is shorter
\* than the input
C3_WitnessShorter ==
    /\ pc = "list"
    /\ Len(lookupCalls) = 2
    /\ Len(userIDs) = 1


\* ------------------------------------------------------------------- C4
\* the latest channel-list call was answered with a success and an empty cursor
FetchComplete ==
    /\ Len(listCalls) > 0
    /\ listCalls[Len(listCalls)].ok
    /\ listCalls[Len(listCalls)].ret = EmptyString

\* a line of the mutation loop: the outcome of one requested channel
ChannelLineKinds == {"not_found", "invited", "invite_error", "removed", "remove_error"}
channelLines == SelectSeq(out, LAMBDA l : l.kind \in ChannelLineKinds)

\* something of the mutation stage has happened
MutationStarted ==
    \/ chanIdx > 1
    \/ Len(inviteCalls) > 0
    \/ Len(kickCalls) > 0
    \/ Len(channelLines) > 0

\* the identifier of the last entry named name on a page that has one
LastIdOnPage(page, name) ==
    page[CHOOSE i \in 1..Len(page) :
            /\ page[i].name = name
            /\ \A j \in (i + 1)..Len(page) : page[j].name # name].id

\* the state right after the last page: the latest remote call is a list call
\* answered with a success and an empty cursor, a requested channel is next
\* in turn, and its name is on that page with a non-empty identifier
OnLastPage ==
    /\ Len(calls) > 0
    /\ calls[Len(calls)].op = "list"
    /\ calls[Len(calls)].ok
    /\ calls[Len(calls)].ret = EmptyString
    /\ chanIdx <= Len(channels)
    /\ \E i \in 1..Len(lastResp.channels) : lastResp.channels[i].name = channels[chanIdx]
    /\ LastIdOnPage(lastResp.channels, channels[chanIdx]) # EmptyString

\* C4: nothing of the mutation stage (a channel outcome, an invite or removal
\* call) happens before the channel-list fetch has received a successful page
\* with an empty cursor; and a requested channel whose name is on that last
\* page is mutated next, under the identifier that page gave it.
C4_FetchBeforeMutation ==
    [][/\ MutationStarted' => FetchComplete'
       /\ OnLastPage =>
            /\ Len(calls') = Len(calls) + 1
            /\ calls'[Len(calls')].op = (IF action = actionAdd THEN "invite" ELSE "kick")
            /\ calls'[Len(calls')].channel = LastIdOnPage(lastResp.channels, channels[chanIdx])]_vars

\* the first requested channel is absent from page 1, present on page 2 (the
\* last), and was invited under page 2's identifier
C4_Witness ==
    /\ Len(listCalls) = 2
    /\ \A i \in 1..Len(listCalls[1].page) : listCalls[1].page[i].name # channels[1]
    /\ Len(listCalls[2].page) > 0
    /\ listCalls[2].page[1].name = channels[1]
    /\ Len(inviteCalls) = 1
    /\ inviteCalls[1].channel = listCalls[2].page[1].id
    /\ chanIdx = 2

\* ------------------------------------------------------------------- C5
\* C5: the first list request carries the empty cursor; every later one
\* follows a successful page with a non-empty cursor and carries exactly that
\* cursor; the fetch is over (the mutation stage entered) exactly when the
\* latest page was successful with an empty cursor, and is still running
\* after a successful page with a non-empty cursor, whatever the page's size.
C5_CursorChain ==
    /\ Len(listCalls) > 0 => listCalls[1].arg = EmptyString
    /\ \A i \in 2..Len(listCalls) :
          /\ listCalls[i - 1].ok
          /\ listCalls[i - 1].ret # EmptyString
          /\ listCalls[i].arg = listCalls[i - 1].ret
    /\ Mutating <=> FetchComplete
    /\ (/\ Len(listCalls) > 0
        /\ listCalls[Len(listCalls)].ok
        /\ listCalls[Len(listCalls)].ret # EmptyString) => pc = "list"

\* a full page with cursor c2, then an empty page with the empty cursor
C5_Witness ==
    /\ Len(listCalls) = 2
    /\ Len(listCalls[1].page) = PageLimit
    /\ listCalls[1].ret = <<"c2">>
    /\ listCalls[2].arg = <<"c2">>
    /\ listCalls[2].ok
    /\ listCalls[2].page = <<>>
    /\ pc = "mutate"

\* ------------------------------------------------------------------- C6
RECURSIVE SumPages(_)
SumPages(L) == IF L = <<>> THEN 0 ELSE Len(Head(L).page) + SumPages(Tail(L))

\* the channel names on the pages of the list calls L
FetchedNamesOf(L) ==
    UNION {{L[i].page[j].name : j \in 1..Len(L[i].page)} : i \in 1..Len(L)}

\* C6 as stated: after a successful fetch the mapping has as many entries as
\* the pages had channels in total.
C6_SizeIsSum ==
    Mutating => Cardinality(DOMAIN channelNameToIDMap) = SumPages(listCalls)

\* C6 amended: after a successful fetch the mapping's keys are exactly the
\* distinct channel names on the pages fetched; their number is at most the
\* total channel count of the pages, and equal to it exactly when no name
\* occurs twice.
C6_SizeIsDistinctNames ==
    Mutating =>
        /\ DOMAIN channelNameToIDMap = FetchedNamesOf(listCalls)
        /\ Cardinality(DOMAIN channelNameToIDMap) <= SumPages(listCalls)
        /\ Cardinality(DOMAIN channelNameToIDMap) = SumPages(listCalls)
             <=> \A i1, i2 \in 1..Len(listCalls) :
                   \A j1 \in 1..Len(listCalls[i1].page) :
                     \A j2 \in 1..Len(listCalls[i2].page) :
                       listCalls[i1].page[j1].name = listCalls[i2].page[j2].name
                           => (i1 = i2 /\ j1 = j2)

\* two pages of one channel each, with the same name: one entry, two channels
C6_Witness ==
    /\ Mutating
    /\ SumPages(listCalls) = 2
    /\ Cardinality(DOMAIN channelNameToIDMap) = 1

\* ------------------------------------------------------------------- C7
\* C7: a channel-list call answered with a failure of any kind is the last
\* remote call of the run: main() panics, holds no mapping, and no invite or
\* removal call and no channel outcome ever follows.
C7_FetchFailureIsFatal ==
    /\ \A i \in 1..Len(calls) :
          (calls[i].op = "list" /\ ~calls[i].ok) =>
              /\ i = Len(calls)
              /\ pc = "panic"
              /\ channelNameToIDMap = EmptyMap
              /\ ~MutationStarted
    /\ pc = "panic" =>
          /\ Len(calls) > 0
          /\ calls[Len(calls)].op = "list"
          /\ ~calls[Len(calls)].ok

\* page 1 succeeds with a channel, page 2 comes back 200 with ok=false
C7_Witness ==
    /\ pc = "panic"
    /\ Len(listCalls) = 2
    /\ listCalls[1].ok
    /\ Len(listCalls[1].page) > 0
    /\ lastResp.status = StatusOK
    /\ lastResp.decodes
    /\ ~lastResp.ok
    /\ DOMAIN nameToID # {}

\* ------------------------------------------------------------------- C8
\* the mutation loop is about to process a requested channel whose name is
\* not a key of the mapping
AtMissingChannel ==
    /\ pc = "mutate"
    /\ chanIdx <= Len(channels)
    /\ channels[chanIdx] \notin DOMAIN channelNameToIDMap

\* C8: with either action, the step that processes a requested channel whose
\* name is not a key of the mapping prints "not found -- skipping" for that
\* name, issues no remote call, and moves on to the next requested channel;
\* and the channels processed so far, in request order, have one outcome line
\* each.
C8_NotFoundSkips ==
    [][/\ AtMissingChannel =>
            /\ out' = Append(out, Line("not_found", channels[chanIdx]))
            /\ calls' = calls
            /\ chanIdx' = chanIdx + 1
            /\ pc' = "mutate"
       /\ Len(channelLines') = chanIdx' - 1
       /\ \A i \in 1..Len(channelLines') : channelLines'[i].item = channels[i]]_vars

\* action remove: the first requested channel is unknown and skipped, the
\* second is known and its users are removed
C8_Witness ==
    /\ pc = "done"
    /\ action = actionRemove
    /\ Len(channelLines) = 2
    /\ channels[1] \notin DOMAIN channelNameToIDMap
    /\ channelLines[1].kind = "not_found"
    /\ channelLines[2].kind = "removed"
    /\ Len(kickCalls) > 0
    /\ \A i \in 1..Len(kickCalls) :
          kickCalls[i].channel = channelNameToIDMap[channels[2]]

\* ------------------------------------------------------------------- C9
\* the requested channels that have an outcome line and a non-empty
\* identifier in the mapping, in request order
ResolvedDone ==
    SelectSeq(SubSeq(channels, 1, Len(channelLines)),
              LAMBDA n : MapGet(channelNameToIDMap, n) # EmptyString)

\* C9: with action add no removal call is ever issued, and the invite calls
\* are, in request order, one per processed channel with a (non-empty)
\* identifier in the mapping, each carrying that identifier and a users field
\* whose comma-separated fields are the identifiers of the successful lookups,
\* all of them, in lookup order.
C9_OneInvitePerChannel ==
    action = actionAdd =>
        /\ Len(kickCalls) = 0
        /\ Len(inviteCalls) = Len(ResolvedDone)
        /\ \A i \in 1..Len(inviteCalls) :
              /\ inviteCalls[i].channel = channelNameToIDMap[ResolvedDone[i]]
              /\ Split(inviteCalls[i].arg, Comma) =
                    [j \in 1..Len(SuccessfulLookups) |-> SuccessfulLookups[j].ret]

\* two channels with different identifiers, two users with different
\* identifiers: two invites, each with both users
C9_Witness ==
    /\ action = actionAdd
    /\ pc = "done"
    /\ Len(inviteCalls) = 2
    /\ inviteCalls[1].channel # inviteCalls[2].channel
    /\ Len(userIDs) = 2
    /\ userIDs[1] # userIDs[2]
    /\ inviteCalls[1].arg = userIDs[1] \o <<Comma>> \o userIDs[2]
    /\ inviteCalls[2].arg = inviteCalls[1].arg

\* ------------------------------------------------------------------ C10
\* Whether the removal calls from the k-th on are those of the mutation loop
\* from user u of the c-th requested channel on.  A channel that has its
\* outcome line is complete: it is skipped without a call when it has no
\* identifier (line "not found"); else its calls go through the resolved list
\* in order and end with the first failure (line "error while removing") or
\* with the last user (line "removed").  The channel without an outcome line
\* is in progress: its calls so far succeeded and did not reach the last user.
RECURSIVE KicksFollow(_, _, _)
KicksFollow(k, c, u) ==
    LET id == MapGet(channelNameToIDMap, channels[c])
        n == Len(kickCalls) - k + 1
    IN  IF c > Len(channelLines)
        THEN \/ n = 0
             \/ /\ n > 0
                /\ c <= Len(channels)
                /\ id # EmptyString
                /\ u + n - 1 < Len(userIDs)
                /\ \A j \in 0..(n - 1) :
                      /\ kickCalls[k + j].ok
                      /\ kickCalls[k + j].channel = id
                      /\ kickCalls[k + j].arg = userIDs[u + j]
        ELSE IF id = EmptyString
        THEN /\ channelLines[c].kind = "not_found"
             /\ KicksFollow(k, c + 1, 1)
        ELSE /\ k <= Len(kickCalls)
             /\ u <= Len(userIDs)
             /\ kickCalls[k].channel = id
             /\ kickCalls[k].arg = userIDs[u]
             /\ IF ~kickCalls[k].ok
                THEN /\ channelLines[c].kind = "remove_error"
                     /\ KicksFollow(k + 1, c + 1, 1)
                ELSE IF u = Len(userIDs)
                THEN /\ channelLines[c].kind = "removed"
                     /\ KicksFollow(k + 1, c + 1, 1)
                ELSE KicksFollow(k + 1, c, u + 1)

\* C10 amended: with action remove no invite call is issued, and for each
\* occurrence of a channel in the request that has an identifier the removal
\* calls go through the resolved list in order, one call per position of the
\* list; the first failing call ends the calls for that occurrence, the later
\* positions are never attempted, and the channel is reported as failed.
C10_RemovalFailFast ==
    action = actionRemove =>
        /\ Len(inviteCalls) = 0
        /\ KicksFollow(1, 1, 1)

\* C10 as stated: the same, and no (channel, user) pair of identifiers is
\* sent in two removal calls.
C10_PairsAtMostOnce ==
    action = actionRemove =>
        /\ Len(inviteCalls) = 0
        /\ KicksFollow(1, 1, 1)
        /\ \A i, j \in 1..Len(kickCalls) :
              (kickCalls[i].channel = kickCalls[j].channel
                 /\ kickCalls[i].arg = kickCalls[j].arg) => i = j

\* one channel, two users, the first removal fails: one call, the second
\* user never attempted, the channel reported as failed
C10_Witness ==
    /\ action = actionRemove
    /\ pc = "done"
    /\ Len(channels) = 1
    /\ Len(userIDs) = 2
    /\ userIDs[1] # userIDs[2]
    /\ Len(kickCalls) = 1
    /\ ~kickCalls[1].ok
    /\ kickCalls[1].arg = userIDs[1]
    /\ channelLines[1].kind = "remove_error"

\* ------------------------------------------------------------------ C11
\* the latest remote call is an invite or a removal that failed
LastMutationFailed ==
    /\ Len(calls) > 0
    /\ calls[Len(calls)].op \in {"invite", "kick"}
    /\ ~calls[Len(calls)].ok

\* C11: the step in which an invite or a removal call fails leaves the run in
\* the mutation loop, at the next requested channel and at the first user;
\* and after such a failure the loop does process the next requested channel:
\* it is looked up in the mapping, skipped with "not found" when it has no
\* identifier, and otherwise mutated under its identifier, with all the users
\* (invite) or from the first user on (removal); only after the last
\* requested channel does the run end.
C11_FailureDoesNotStopLoop ==
    [][/\ (/\ Len(calls') = Len(calls) + 1
           /\ LastMutationFailed') =>
              /\ pc' = "mutate"
              /\ chanIdx' = chanIdx + 1
              /\ userIdx' = 1
       /\ (pc = "mutate" /\ LastMutationFailed /\ chanIdx <= Len(channels)) =>
              IF MapGet(channelNameToIDMap, channels[chanIdx]) = EmptyString
              THEN /\ out' = Append(out, Line("not_found", channels[chanIdx]))
                   /\ calls' = calls
                   /\ chanIdx' = chanIdx + 1
              ELSE /\ Len(calls') = Len(calls) + 1
                   /\ calls'[Len(calls')].channel = channelNameToIDMap[channels[chanIdx]]
                   /\ IF action = actionAdd
                      THEN /\ calls'[Len(calls')].op = "invite"
                           /\ Split(calls'[Len(calls')].arg, Comma) = userIDs
                      ELSE /\ calls'[Len(calls')].op = "kick"
                           /\ calls'[Len(calls')].arg = userIDs[1]
       /\ (pc = "mutate" /\ LastMutationFailed /\ chanIdx > Len(channels)) =>
              pc' = "done"]_vars

\* action remove, two channels, two users: the first removal of the first
\* channel fails, the second channel has both users removed
C11_Witness ==
    /\ pc = "done"
    /\ action = actionRemove
    /\ Len(userIDs) = 2
    /\ Len(channelLines) = 2
    /\ channelLines[1].kind = "remove_error"
    /\ channelLines[2].kind = "removed"
    /\ Len(kickCalls) = 3
    /\ ~kickCalls[1].ok
    /\ kickCalls[2].arg = userIDs[1]
    /\ kickCalls[3].arg = userIDs[2]
    /\ kickCalls[2].channel = channelNameToIDMap[channels[2]]

\* ------------------------------------------------------------------ C12
\* C12: when the credential, the email list or the channel list is empty, or
\* the action is neither add nor remove, the run issues no remote call at
\* all and goes nowhere but to the exit after the usage text: the usage text
\* is all it prints, and its exit status is not zero.
C12_InvalidFlagsNoCalls ==
    (\/ apiToken = EmptyString
     \/ emails = EmptyString
     \/ channelsArg = EmptyString
     \/ action \notin {actionAdd, actionRemove}) =>
        /\ calls = <<>>
        /\ pc \in {"start", "exit1"}
        /\ pc = "exit1" =>
              /\ out = <<Line("usage", EmptyString)>>
              /\ exitStatus # 0

\* credential, emails and channels are given, the action is a third word:
\* the run has ended with the usage text
C12_Witness ==
    /\ pc = "exit1"
    /\ apiToken # EmptyString
    /\ emails # EmptyString
    /\ channelsArg # EmptyString
    /\ action \notin {actionAdd, actionRemove}
    /\ out = <<Line("usage", EmptyString)>>

\* ------------------------------------------------------------------ C13
\* a printed line of one of the kinds ks names item x
Named(ks, x) == \E i \in 1..Len(out) : out[i].kind \in ks /\ out[i].item = x

\* a printed line of kind k names a requested channel with identifier id
ChannelNamed(k, id) ==
    \E i \in 1..Len(out) :
        /\ out[i].kind = k
        /\ MapGet(channelNameToIDMap, out[i].item) = id

\* the failed call c has its diagnostic, except for the user of a removal:
\* a lookup names the email, a list call is the panic message, an invite and
\* a removal name the channel
Diagnosed(c) ==
    IF c.op = "lookup" THEN Named({"lookup_error"}, c.arg)
    ELSE IF c.op = "list" THEN \E i \in 1..Len(out) : out[i].kind = "panic"
    ELSE IF c.op = "invite" THEN ChannelNamed("invite_error", c.channel)
    ELSE ChannelNamed("remove_error", c.channel)

\* C13 as stated: whatever the debug setting, every failed remote call has a
\* printed diagnostic that names its item: the email of a lookup, the channel
\* of an invite or a removal, and the user of a failed removal.
C13_EveryFailureNamed ==
    \A i \in 1..Len(calls) :
        ~calls[i].ok =>
            /\ Diagnosed(calls[i])
            /\ calls[i].op = "kick" =>
                  Named({"remove_error", "debug_remove_error"}, calls[i].arg)

\* C13, what the code does: every failed call is reported with its email or
\* channel; the user of a failed removal is named only under -debug.
C13_FailureNamedUnderDebug ==
    \A i \in 1..Len(calls) :
        ~calls[i].ok =>
            /\ Diagnosed(calls[i])
            /\ (calls[i].op = "kick" /\ debug) =>
                  Named({"debug_remove_error"}, calls[i].arg)

\* without -debug a removal failed and was reported for its channel
C13_Witness ==
    /\ ~debug
    /\ Len(kickCalls) > 0
    /\ ~kickCalls[Len(kickCalls)].ok
    /\ ChannelNamed("remove_error", kickCalls[Len(kickCalls)].channel)

\* ------------------------------------------------------------------ C14
\* the state of the i-th requested channel in the per-channel state machine
ChannelState(i) ==
    IF i > Len(channelLines) THEN "Pending"
    ELSE IF channelLines[i].kind = "not_found" THEN "NotFound"
    ELSE IF channelLines[i].kind \in {"invited", "removed"} THEN "Mutated"
    ELSE "Failed"

\* C14: a requested channel that has left Pending keeps its terminal state
\* for the rest of the run; the step that takes it out of Pending takes it to
\* NotFound without a call, to Failed with a call that failed, or to Mutated
\* with a call that succeeded; the loops never go back to an earlier email or
\* channel; every call is issued for the item in turn, and the step in which
\* a call fails moves past that item (a failed list call ends the run), so
\* that no failed call is issued again; and a completed run has taken every
\* requested channel to a terminal state.
C14_OneTerminalStateNoRetry ==
    [][/\ \A i \in 1..Len(channels) :
             ChannelState(i) # "Pending" => ChannelState(i)' = ChannelState(i)
       /\ \A i \in 1..Len(channels) :
             (ChannelState(i) = "Pending" /\ ChannelState(i)' # "Pending") =>
                 /\ i = chanIdx
                 /\ chanIdx' = chanIdx + 1
                 /\ ChannelState(i)' = "NotFound" => calls' = calls
                 /\ ChannelState(i)' = "Failed" =>
                       (Len(calls') = Len(calls) + 1 /\ ~calls'[Len(calls')].ok)
                 /\ ChannelState(i)' = "Mutated" =>
                       (Len(calls') = Len(calls) + 1 /\ calls'[Len(calls')].ok)
       /\ emailIdx' >= emailIdx
       /\ chanIdx' >= chanIdx
       /\ calls' # calls =>
             \E k \in {chanIdx} :
             LET c == calls'[Len(calls')]
             IN  /\ calls' = Append(calls, c)
                 /\ c.op = "lookup" =>
                       /\ c.arg = emailList[emailIdx]
                       /\ emailIdx' = emailIdx + 1
                 /\ c.op = "list" =>
                       /\ c.arg = nextCursor
                       /\ ~c.ok => pc' = "panic"
                 /\ c.op \in {"invite", "kick"} =>
                       /\ ChannelState(k) = "Pending"
                       /\ c.channel = MapGet(channelNameToIDMap, channels[k])
                       /\ ~c.ok => ChannelState(k)' = "Failed"
                 /\ c.op = "kick" =>
                       /\ c.arg = userIDs[userIdx]
                       /\ c.ok => \/ userIdx' = userIdx + 1
                                  \/ ChannelState(k)' = "Mutated"
       /\ pc' = "done" =>
             \A i \in 1..Len(channels) : ChannelState(i)' # "Pending"]_vars

\* a completed run: the first lookup failed, the first channel failed, the
\* second channel was mutated
C14_Witness ==
    /\ pc = "done"
    /\ Len(lookupCalls) = 2
    /\ ~lookupCalls[1].ok
    /\ Len(channels) = 2
    /\ ChannelState(1) = "Failed"
    /\ ChannelState(2) = "Mutated"

\* ------------------------------------------------------------------ C15
\* the stage a remote call belongs to: 1 Resolver, 2 Directory, 3 Mutator
StageOf(c) ==
    IF c.op = "lookup" THEN 1 ELSE IF c.op = "list" THEN 2 ELSE 3

\* the stage main() is in
StageOfRun ==
    IF pc \in {"start", "exit1", "lookup", "aborted"} THEN 1
    ELSE IF pc \in {"list", "panic"} THEN 2
    ELSE 3

\* C15: in the call history every lookup comes before every list call and
\* every list call before every invite or removal call; the calls a step
\* issues belong to the stage the run is in, and the run never goes back to
\* an earlier stage; and a step issues at most one call, whose response it
\* has received before the next step (no two calls are in flight together).
C15_StagesInOrder ==
    [][/\ \A i, j \in 1..Len(calls') :
             i < j => StageOf(calls'[i]) <= StageOf(calls'[j])
       /\ StageOfRun' >= StageOfRun
       /\ Len(calls') <= Len(calls) + 1
       /\ SubSeq(calls', 1, Len(calls)) = calls
       /\ Len(calls') = Len(calls) + 1 =>
             /\ StageOf(calls'[Len(calls')]) = StageOfRun
             /\ calls'[Len(calls')].ok = Successful(lastResp')]_vars

\* a completed run with two lookups, two list pages and removal calls
C15_Witness ==
    /\ pc = "done"
    /\ Len(lookupCalls) = 2
    /\ Len(listCalls) = 2
    /\ Len(kickCalls) >= 2
    /\ calls = lookupCalls \o listCalls \o kickCalls

\* ------------------------------------------------------------------ C16
\* The step that issued the latest call reports it as failed: a lookup by its
\* error line, without a new identifier; a list call by the panic; an invite
\* and a removal by the error line of the channel.
ReportedFailed ==
    LET c == calls'[Len(calls')]
        l == out'[Len(out')]
    IN  IF c.op = "lookup" THEN l.kind = "lookup_error" /\ userIDs' = userIDs
        ELSE IF c.op = "list" THEN pc' = "panic"
        ELSE IF c.op = "invite" THEN l.kind = "invite_error"
        ELSE Len(out') > Len(out) /\ l.kind = "remove_error"

\* ... reports it as successful: a lookup by its "valid user" line and a new
\* identifier; a list call by going on (to the next page or to the mutation
\* stage); an invite by "invited"; a removal by going on to the next user or
\* by "removed"
ReportedSuccessful ==
    LET c == calls'[Len(calls')]
        l == out'[Len(out')]
    IN  IF c.op = "lookup"
        THEN l.kind = "valid_user" /\ Len(userIDs') = Len(userIDs) + 1
        ELSE IF c.op = "list" THEN pc' \in {"list", "mutate"}
        ELSE IF c.op = "invite" THEN l.kind = "invited"
        ELSE \/ out' = out /\ userIdx' = userIdx + 1
             \/ Len(out') > Len(out) /\ l.kind = "removed"

\* C16: a step that issues a remote call reports it either as successful or
\* as failed; as successful only if the transport gave a response, its
\* status is 200, its body decodes and its ok field is true; and a response
\* with status 200 whose ok field is not true is reported as failed, for
\* each of the four operations.
C16_SuccessNeedsOk ==
    [][Len(calls') = Len(calls) + 1 =>
          /\ ReportedSuccessful # ReportedFailed
          /\ ReportedSuccessful =>
                /\ ~lastResp'.err
                /\ lastResp'.status = StatusOK
                /\ lastResp'.decodes
                /\ lastResp'.ok
          /\ (lastResp'.status = StatusOK /\ ~lastResp'.ok) => ReportedFailed]_vars

\* the latest call, of operation op, was answered 200 with a body that
\* decodes and says ok=false
AnsweredNotOk(op) ==
    /\ Len(calls) > 0
    /\ calls[Len(calls)].op = op
    /\ lastResp.status = StatusOK
    /\ lastResp.decodes
    /\ ~lastResp.ok

\* a removal answered 200 with ok=false: the channel is reported as failed
C16_Witness ==
    /\ AnsweredNotOk("kick")
    /\ out[Len(out)].kind = "remove_error"

\* the same for a lookup, a list call and an invite
C16_WitnessLookup ==
    /\ AnsweredNotOk("lookup")
    /\ out[Len(out)].kind = "lookup_error"

C16_WitnessList ==
    /\ AnsweredNotOk("list")
    /\ pc = "panic"

C16_WitnessInvite ==
    /\ AnsweredNotOk("invite")
    /\ out[Len(out)].kind = "invite_error"

\* ------------------------------------------------------------------ C17
\* the entries of the pages of the list calls L, in fetch order
RECURSIVE FetchedEntries(_)
FetchedEntries(L) ==
    IF L = <<>> THEN <<>> ELSE Head(L).page \o FetchedEntries(Tail(L))

\* C17: after the fetch the mapping holds, for every fetched name, the
\* identifier of the last entry with that name in fetch order (over all the
\* pages); and every invite or removal call issued for a requested name goes
\* to that identifier, never to the identifier of an earlier entry of the
\* same name.
C17_LastEntryWins ==
    [][/\ Mutating' =>
             \A n \in FetchedNamesOf(listCalls') :
                 channelNameToIDMap'[n] = LastIdOnPage(FetchedEntries(listCalls'), n)
       /\ (/\ Len(calls') = Len(calls) + 1
           /\ calls'[Len(calls')].op \in {"invite", "kick"}) =>
             /\ channels[chanIdx] \in FetchedNamesOf(listCalls)
             /\ calls'[Len(calls')].channel =
                   LastIdOnPage(FetchedEntries(listCalls), channels[chanIdx])]_vars

\* the requested name is twice on one page, with different identifiers; the
\* one invite went to the identifier of the second entry
C17_Witness ==
    /\ pc = "done"
    /\ Len(listCalls) = 1
    /\ Len(listCalls[1].page) = 2
    /\ listCalls[1].page[1].name = channels[1]
    /\ listCalls[1].page[2].name = channels[1]
    /\ listCalls[1].page[1].id # EmptyString
    /\ listCalls[1].page[1].id # listCalls[1].page[2].id
    /\ Len(inviteCalls) = 1
    /\ inviteCalls[1].channel = listCalls[1].page[2].id

\* the requested name is on both pages with different identifiers; the one
\* invite went to the identifier of the second page
C17_WitnessTwoPages ==
    /\ pc = "done"
    /\ Len(channels) = 1
    /\ Len(listCalls) = 2
    /\ Len(listCalls[1].page) = 1
    /\ Len(listCalls[2].page) = 1
    /\ listCalls[1].page[1].name = channels[1]
    /\ listCalls[2].page[1].name = channels[1]
    /\ listCalls[1].page[1].id # EmptyString
    /\ listCalls[1].page[1].id # listCalls[2].page[1].id
    /\ Len(inviteCalls) = 1
    /\ inviteCalls[1].channel = listCalls[2].page[1].id

\* ------------------------------------------------------------------ C18
\* the process has ended: usage exit, abort, panic, or all channels done
Terminated == pc \in {"exit1", "aborted", "panic", "done"}

\* C18 as stated: provided every remote call returns, the run terminates
\* whatever the server answers.
C18_AlwaysTerminates == <>Terminated

\* C18 amended: provided every remote call returns, the run terminates unless
\* the server goes on answering the list requests with non-empty cursors: a
\* run that does not terminate stays, from some point on, inside the
\* pagination loop with a non-empty cursor in hand.
C18_TerminatesUnlessCursorsGoOn ==
    <>Terminated \/ <>[](pc = "list" /\ nextCursor # EmptyString)

\* the mapping has more names than a page holds: the server returned a
\* non-empty cursor at least once, then an empty one, and the run completed
\* with an invite
C18_Witness ==
    /\ pc = "done"
    /\ Cardinality(DOMAIN channelNameToIDMap) > PageLimit
    /\ Len(inviteCalls) = 1

\* ------------------------------------------------------------------ C19
\* C19: the accumulator and the mapping main() holds change only in a step
\* of the fetch that issues a list call; once the mutation stage is entered
\* no step changes the mapping, the accumulator or the resolved list.
C19_MappingFrozen ==
    [][/\ (nameToID' # nameToID \/ channelNameToIDMap' # channelNameToIDMap) =>
             /\ pc = "list"
             /\ Len(calls') = Len(calls) + 1
             /\ calls'[Len(calls')].op = "list"
       /\ Mutating =>
             /\ channelNameToIDMap' = channelNameToIDMap
             /\ nameToID' = nameToID
             /\ userIDs' = userIDs]_vars

\* a completed run over a non-empty mapping and two users: one requested
\* channel was not found, the other failed
C19_Witness ==
    /\ pc = "done"
    /\ DOMAIN channelNameToIDMap # {}
    /\ Len(userIDs) = 2
    /\ Len(channelLines) = 2
    /\ channelLines[1].kind = "not_found"
    /\ channelLines[2].kind \in {"invite_error", "remove_error"}

\* ------------------------------------------------------------------ C20
\* the mutation loop is about to process a requested channel whose name is a
\* key of the mapping, with the empty identifier
AtEmptyIdChannel ==
    /\ pc = "mutate"
    /\ chanIdx <= Len(channels)
    /\ channels[chanIdx] \in DOMAIN channelNameToIDMap
    /\ channelNameToIDMap[channels[chanIdx]] = EmptyString

\* C20: a requested channel whose entry has the empty identifier is skipped
\* as not found, without a call.  A lookup answered with a success and the
\* empty identifier appends the empty identifier to the resolved list; a run
\* with a successful lookup, whatever its identifier, does not abort; every
\* invite sends the resolved list with the empty identifiers at their
\* positions, and the removal loop sends the empty identifier when its turn
\* comes, like any other.
C20_EmptyIdAsymmetry ==
    [][/\ AtEmptyIdChannel =>
             /\ out' = Append(out, Line("not_found", channels[chanIdx]))
             /\ calls' = calls
             /\ chanIdx' = chanIdx + 1
       /\ (/\ Len(calls') = Len(calls) + 1
           /\ calls'[Len(calls')].op = "lookup"
           /\ calls'[Len(calls')].ok
           /\ calls'[Len(calls')].ret = EmptyString) =>
             userIDs' = Append(userIDs, EmptyString)
       /\ (\E i \in 1..Len(lookupCalls') : lookupCalls'[i].ok) => pc' # "aborted"
       /\ (/\ Len(calls') = Len(calls) + 1
           /\ calls'[Len(calls')].op = "invite") =>
             /\ Len(Split(calls'[Len(calls')].arg, Comma)) = Len(userIDs)
             /\ \A j \in 1..Len(userIDs) :
                   userIDs[j] = EmptyString =>
                       Split(calls'[Len(calls')].arg, Comma)[j] = EmptyString
       /\ (/\ pc = "mutate"
           /\ action = actionRemove
           /\ chanIdx <= Len(channels)
           /\ MapGet(channelNameToIDMap, channels[chanIdx]) # EmptyString
           /\ userIDs[userIdx] = EmptyString) =>
             /\ Len(calls') = Len(calls) + 1
             /\ calls'[Len(calls')].op = "kick"
             /\ calls'[Len(calls')].arg = EmptyString]_vars

\* the first lookup returned the empty identifier, the second another one;
\* the first requested channel has an entry with the empty identifier and
\* was skipped, the second was invited with users ",U"
C20_Witness ==
    /\ pc = "done"
    /\ Len(userIDs) = 2
    /\ userIDs[1] = EmptyString
    /\ userIDs[2] # EmptyString
    /\ Len(channels) = 2
    /\ channels[1] \in DOMAIN channelNameToIDMap
    /\ channelNameToIDMap[channels[1]] = EmptyString
    /\ channelLines[1].kind = "not_found"
    /\ Len(inviteCalls) = 1
    /\ inviteCalls[1].arg = <<Comma>> \o userIDs[2]

\* the only resolved identifier is the empty one: the run did not abort and
\* a removal call was sent for it
C20_WitnessRemove ==
    /\ pc = "done"
    /\ userIDs = <<EmptyString>>
    /\ Len(kickCalls) = 1
    /\ kickCalls[1].arg = EmptyString

\* ------------------------------------------------------------------ C21
\* the fields of the -channels argument, as given
requested == Split(channelsArg, Comma)

\* the positions of the request whose name has identifier id in the mapping
OccurrencesOf(id) ==
    {i \in 1..Len(requested) : MapGet(channelNameToIDMap, requested[i]) = id}

\* C21: every occurrence of a name in the -channels argument is processed on
\* its own.  Whatever the outcomes of the earlier occurrences, the step that
\* processes an occurrence with an identifier issues a call for it: the
\* invite with all the users, or the first removal of its sub-loop.  In a
\* completed run each channel identifier has as many outcome lines as there
\* are occurrences of its names in the argument; with action add it has as
\* many invite calls, with action remove as many removal sub-loops (each
\* ending with "removed" or with its error line, and with at least one
\* removal call).
C21_EveryOccurrenceMutated ==
    [][/\ (/\ pc = "mutate"
           /\ chanIdx <= Len(requested)
           /\ userIdx = 1
           /\ MapGet(channelNameToIDMap, requested[chanIdx]) # EmptyString) =>
             /\ Len(calls') = Len(calls) + 1
             /\ calls'[Len(calls')].channel = channelNameToIDMap[requested[chanIdx]]
             /\ IF action = actionAdd
                THEN /\ calls'[Len(calls')].op = "invite"
                     /\ Split(calls'[Len(calls')].arg, Comma) = userIDs
                ELSE /\ calls'[Len(calls')].op = "kick"
                     /\ calls'[Len(calls')].arg = userIDs[1]
       /\ pc' = "done" =>
             /\ Len(channelLines') = Len(requested)
             /\ \A i \in 1..Len(requested) : channelLines'[i].item = requested[i]
             /\ \A id \in ChannelIDSet \ {EmptyString} :
                   /\ action = actionAdd =>
                         Cardinality({i \in 1..Len(inviteCalls') :
                                        inviteCalls'[i].channel = id})
                             = Cardinality(OccurrencesOf(id))
                   /\ action = actionRemove =>
                         /\ \A i \in OccurrencesOf(id) :
                               channelLines'[i].kind \in {"removed", "remove_error"}
                         /\ Cardinality({i \in 1..Len(kickCalls') :
                                           kickCalls'[i].channel = id})
                               >= Cardinality(OccurrencesOf(id))]_vars

\* the same name twice in the argument: two invites to its channel, the
\* first failed, the second succeeded
C21_Witness ==
    /\ pc = "done"
    /\ action = actionAdd
    /\ Len(requested) = 2
    /\ requested[1] = requested[2]
    /\ Len(inviteCalls) = 2
    /\ inviteCalls[1].channel = inviteCalls[2].channel
    /\ ~inviteCalls[1].ok
    /\ inviteCalls[2].ok

\* the same with action remove and two users: the first sub-loop stopped at
\* its first removal, the second removed both users
C21_WitnessRemove ==
    /\ pc = "done"
    /\ action = actionRemove
    /\ Len(requested) = 2
    /\ requested[1] = requested[2]
    /\ Len(userIDs) = 2
    /\ Len(kickCalls) = 3
    /\ ~kickCalls[1].ok
    /\ channelLines[1].kind = "remove_error"
    /\ channelLines[2].kind = "removed"

=============================================================================
